---- MODULE Spec2Model ----
(***************************************************************************)
(* ElonBot (src/binance_trade_bot/models/elon_bot.py): a watcher that      *)
(* consumes a tweet stream, matches each tweet against ordered             *)
(* pattern -> ticker rules and runs a delayed buy / delayed sell cycle.    *)
(*                                                                         *)
(* Modelling conventions                                                   *)
(*  - The model follows the control flow and the flow of values of the     *)
(*    methods.  Python name and attribute resolution is not modelled: a    *)
(*    Coin is represented by its symbol, the logger and the exchange       *)
(*    manager are taken to be available wherever they are used.            *)
(*    The fields of self are state: after a construction that returned     *)
(*    before setting them they are absent.                                 *)
(*  - A text is a sequence of characters, a character is a short string;   *)
(*    "o'" stands for the accented letter o-acute and "sz" for the sharp s.*)
(*  - An amount is an integer; a quantity is a fraction <<num, den>>.      *)
(*  - Every answer of an external collaborator (exchange, stream, OCR) is  *)
(*    an input drawn from a small set.                                     *)
(***************************************************************************)
EXTENDS Integers, Sequences, FiniteSets, TLC

VARIABLES
    self,        \* the ElonBot object: the fields __init__ sets
    pc,          \* position of the single thread of control
    resets,      \* calls of reset_twitter_subscription_rules
    connects,    \* calls of requests.get on the stream endpoint
    backoffs,    \* time.sleep(60) waits completed
    lines,       \* lines read from the current response body
    status,      \* HTTP status of the current response (0: none yet)
    processed,   \* runs of tweet_has_crypto (decoded or attempted events)
    last,        \* the last run of tweet_has_crypto: its inputs and outcome
    hct,         \* outcome of has_crypto_tweet
    targs,       \* arguments of the running trade call
    calls,       \* exchange calls and waits made by trade, in order
    buy_result,  \* trade's local buy_result
    tret,        \* outcome of trade
    cancelled    \* a shutdown signal was delivered to the thread

vars == <<self, pc, resets, connects, backoffs, lines, status, processed,
          last, hct, targs, calls, buy_result, tret, cancelled>>

None == "None"

----------------------------------------------------------------------------
(* Bounds *)

MaxConnects == 2
MaxLines == 2
MaxTextLen == 3

----------------------------------------------------------------------------
(* Texts, unidecode and re.search(pattern, text, flags=re.I) *)

RECURSIVE Flatten(_)
Flatten(ss) == IF ss = <<>> THEN <<>> ELSE Head(ss) \o Flatten(Tail(ss))

\* unidecode of one character: its closest ASCII transliteration
UnidecodeChar(c) ==
    CASE c = "o'" -> <<"o">>
      [] c = "sz" -> <<"s", "s">>
      [] OTHER -> <<c>>

unidecode(t) == Flatten([i \in 1..Len(t) |-> UnidecodeChar(t[i])])

\* case folding of re.I
Lower(c) ==
    CASE c = "D" -> "d"
      [] c = "O" -> "o"
      [] c = "G" -> "g"
      [] c = "S" -> "s"
      [] OTHER -> c

\* one pattern character against one text character; "." matches any
CharMatches(p, c) == p = "." \/ Lower(p) = Lower(c)

MatchesAt(pattern, t, i) ==
    /\ i + Len(pattern) - 1 <= Len(t)
    /\ \A j \in 1..Len(pattern) : CharMatches(pattern[j], t[i + j - 1])

\* re.search(pattern, t, flags=re.I) is not None
re_search(pattern, t) == \E i \in 1..(Len(t) + 1) : MatchesAt(pattern, t, i)

----------------------------------------------------------------------------
(* Rule matching: the loop of tweet_has_crypto over self.crypto_rules *)

\* The loop returning the LAST rule that matches instead of the first.
RECURSIVE match_rules_last(_, _)
match_rules_last(rules, full_text) ==
    IF rules = <<>> THEN None
    ELSE LET rest == match_rules_last(Tail(rules), full_text)
         IN  IF rest # None THEN rest
             ELSE IF re_search(Head(rules).pattern, unidecode(full_text))
                  THEN Head(rules).ticker
                  ELSE None

\* The loop falling back to the first rule's ticker when nothing matches.
RECURSIVE match_rules_default(_, _)
match_rules_default(rules, full_text) ==
    IF rules = <<>> THEN None ELSE Head(rules).ticker

\* for re_pattern, ticker in self.crypto_rules.items(): ... return ticker
\* return None
RECURSIVE match_rules(_, _)
match_rules(rules, full_text) ==
    IF rules = <<>> THEN None
    ELSE IF re_search(Head(rules).pattern, unidecode(full_text))
         THEN Head(rules).ticker
         ELSE match_rules(Tail(rules), full_text)

----------------------------------------------------------------------------
(* OCR and the extraction pipeline *)

\* get_image_text letting the exception of the vision client escape.
get_image_text_raising(uri, ocr) ==
    IF uri = "" THEN [raised |-> FALSE, text |-> <<>>]
    ELSE CASE ocr.kind = "exception" -> [raised |-> TRUE, text |-> <<>>]
           [] ocr.kind = "api_error" -> [raised |-> FALSE, text |-> <<>>]
           [] OTHER -> [raised |-> FALSE, text |-> ocr.text]

\* ocr is the answer of the vision client for this call:
\* kind "ok" (text annotations joined), "api_error" (response.error.message
\* set) or "exception" (the client raised).
get_image_text(uri, ocr) ==
    IF uri = "" THEN [raised |-> FALSE, text |-> <<>>]
    ELSE CASE ocr.kind = "exception" -> [raised |-> FALSE, text |-> <<>>]
           [] ocr.kind = "api_error" -> [raised |-> FALSE, text |-> <<>>]
           [] OTHER -> [raised |-> FALSE, text |-> ocr.text]

\* (tweet_json.get('includes', {}).get('media', [])[0:1] or [{}])[0].get('url', '')
\* media is the list of the urls of the attached media, "" for an item
\* without url.
image_url_of(tweet_json) ==
    IF tweet_json.media = <<>> THEN "" ELSE tweet_json.media[1]

NoRun == [ran |-> FALSE, raised |-> FALSE, ticker |-> None,
          tweet_text |-> <<>>, image_url |-> "", ocr_called |-> FALSE,
          ocr_kind |-> "none", image_text |-> <<>>, full_text |-> <<>>]

\* One run of tweet_has_crypto on the payload tweet_json, the vision client
\* answering ocr.  A payload of kind "malformed" is one json.loads (or the
\* ['data']['text'] lookup) raises on.
tweet_has_crypto(s, tweet_json, ocr) ==
    IF tweet_json.kind = "malformed"
    THEN [NoRun EXCEPT !.ran = TRUE, !.raised = TRUE]
    ELSE LET tweet_text == tweet_json.text
             image_url  == image_url_of(tweet_json)
             img        == IF s.use_image_signal
                           THEN get_image_text(image_url, ocr)
                           ELSE [raised |-> FALSE, text |-> <<>>]
             full_text  == tweet_text \o <<" ">> \o img.text
         IN  IF img.raised
             THEN [NoRun EXCEPT !.ran = TRUE, !.raised = TRUE,
                                !.tweet_text = tweet_text,
                                !.image_url = image_url,
                                !.ocr_called = TRUE, !.ocr_kind = ocr.kind]
             ELSE [ran |-> TRUE, raised |-> FALSE,
                   ticker |-> match_rules(s.crypto_rules, full_text),
                   tweet_text |-> tweet_text, image_url |-> image_url,
                   ocr_called |-> s.use_image_signal,
                   ocr_kind |-> IF s.use_image_signal THEN ocr.kind ELSE "none",
                   image_text |-> img.text, full_text |-> full_text]

----------------------------------------------------------------------------
(* Construction *)

NoPayload == [kind |-> "none", text |-> <<>>, media |-> <<>>]

\* ElonBot.__init__: without a Twitter API key it returns before setting any
\* field; otherwise it copies the configuration and derives
\* use_image_signal and dry_run.
ElonBotInit(config) ==
    IF config.TWITTER_API_KEY = None
    THEN [initialized |-> FALSE, crypto_rules |-> <<>>, bridge |-> None,
          auto_buy_delay |-> 0, auto_sell_delay |-> 0, margin_type |-> None,
          order_size |-> None, use_image_signal |-> FALSE,
          process_tweet_text |-> NoPayload, dry_run |-> FALSE,
          slept |-> 0]
    ELSE [initialized |-> TRUE,
          crypto_rules |-> config.ELON_CRYPTO_RULES,
          bridge |-> config.BRIDGE,
          auto_buy_delay |-> config.ELON_AUTO_BUY_DELAY_SECONDS,
          auto_sell_delay |-> config.ELON_AUTO_SELL_DELAY_SECONDS,
          margin_type |-> config.ELON_MARGIN_TYPE,
          order_size |-> config.ELON_ORDER_SIZE_MAX,
          use_image_signal |-> config.GOOGLE_APPLICATION_CREDENTIALS # None,
          process_tweet_text |-> config.ELON_TWEET_TEXT,
          dry_run |-> config.ELON_TWEET_TEXT.kind # "none",
          slept |-> 10]

----------------------------------------------------------------------------
(* Order sizing *)

\* Decimal(self.order_size), in tenths (exact)
DecimalTenths(order_size) ==
    CASE order_size = "0.5" -> 5
      [] order_size = "1.1" -> 11
      [] order_size = "2.0" -> 20
      [] order_size = "2.5" -> 25
      [] OTHER -> 0

\* float(self.order_size) is the IEEE double nearest to the decimal literal:
\* sign of float(order_size) - Decimal(order_size).  0.5, 2.0 and 2.5 are
\* doubles; the double nearest to 1.1 is 1.100000000000000088817841970012523.
FloatErrSign(order_size) ==
    CASE order_size = "1.1" -> 1
      [] OTHER -> 0

\* The size check comparing the exact decimal value of order_size.
order_size_exceeds_exact(order_size, available_cash, borrowable_cash) ==
    DecimalTenths(order_size) * available_cash
        > 10 * (available_cash + borrowable_cash)

\* max_cash = (available_cash + borrowable_cash) / available_cash
\* float(self.order_size) > max_cash
\* The balances are Decimal (line 114 multiplies one by a Decimal), so the
\* comparison is between the double and the exact quotient; available_cash
\* is positive here.
order_size_exceeds(order_size, available_cash, borrowable_cash) ==
    LET lhs == DecimalTenths(order_size) * available_cash
        rhs == 10 * (available_cash + borrowable_cash)
    IN  lhs > rhs \/ (lhs = rhs /\ FloatErrSign(order_size) > 0)

\* total_cash leaving the borrowable amount out of a "max" order.
total_cash_available_only(order_size, available_cash, borrowable_cash) ==
    IF order_size = "max"
    THEN <<available_cash, 1>>
    ELSE <<available_cash * DecimalTenths(order_size), 10>>

\* total_cash as a fraction <<num, den>>
total_cash_of(order_size, available_cash, borrowable_cash) ==
    IF order_size = "max"
    THEN <<available_cash + borrowable_cash, 1>>
    ELSE <<available_cash * DecimalTenths(order_size), 10>>

\* One call made during a trade cycle: the method making it (by), the
\* operation, the quantity passed (orders and waits), the two asset
\* arguments in the order passed, and the amount answered (-1: none).
Call(by, op, qty, a, b, ret) ==
    [by |-> by, op |-> op, qty |-> qty, a |-> a, b |-> b, ret |-> ret]
NoQty == <<0, 1>>

\* buy without the zero-balance return.
buy_zero_check_dropped(available_cash) == FALSE

\* if available_cash == 0: ... return None
buy_zero_check(available_cash) == available_cash = 0

\* ElonBot.buy(coin, ticker); a Coin is represented by its symbol.  env is
\* what the exchange answers: the call that raises (fail), the ask price,
\* the available and borrowable balances and what manager.buy returns.
buy(s, coin, ticker, env) ==
    LET Ans(op, v) == IF env.fail = op THEN -1 ELSE v
        c1 == <<Call("buy", "get_ask_price", NoQty, ticker, coin,
                     Ans("get_ask_price", env.ask))>>
        c2 == c1 \o <<Call("buy", "get_available_asset", NoQty, coin, ticker,
                           Ans("get_available_asset", env.available))>>
        c3 == c2 \o <<Call("buy", "get_max_borrowable", NoQty, coin, ticker,
                           Ans("get_max_borrowable", env.borrowable))>>
        total_cash == total_cash_of(s.order_size, env.available, env.borrowable)
        ticker_amount == <<total_cash[1], total_cash[2] * env.ask>>
        c4 == c3 \o <<Call("buy", "buy", ticker_amount, ticker, coin, -1)>>
        Raised(cs, e) == [calls |-> cs, raised |-> TRUE, error |-> e,
                          value |-> None]
        Returned(cs, v) == [calls |-> cs, raised |-> FALSE, error |-> None,
                            value |-> v]
    IN  IF env.fail = "get_ask_price" THEN Raised(c1, "ExchangeError")
        ELSE IF env.fail = "get_available_asset" THEN Raised(c2, "ExchangeError")
        ELSE IF buy_zero_check(env.available) THEN Returned(c2, None)
        ELSE IF env.fail = "get_max_borrowable" THEN Raised(c3, "ExchangeError")
        ELSE IF /\ s.order_size # "max"
                /\ order_size_exceeds(s.order_size, env.available, env.borrowable)
             THEN Raised(c3, "ValueError")
        ELSE IF env.fail = "buy" THEN Raised(c4, "ExchangeError")
        ELSE Returned(c4, env.order)

\* ElonBot.sell(ticker)
sell(s, ticker, env) ==
    LET c1 == <<Call("sell", "get_available_asset", NoQty, s.bridge, ticker,
                     IF env.fail = "get_available_asset" THEN -1
                     ELSE env.available_ticker)>>
        c2 == c1 \o <<Call("sell", "sell", <<env.available_ticker, 1>>,
                           ticker, s.bridge, -1)>>
    IN  IF env.fail = "get_available_asset"
        THEN [calls |-> c1, raised |-> TRUE, error |-> "ExchangeError", value |-> None]
        ELSE IF env.fail = "sell"
        THEN [calls |-> c2, raised |-> TRUE, error |-> "ExchangeError", value |-> None]
        ELSE [calls |-> c2, raised |-> FALSE, error |-> None, value |-> env.order]

----------------------------------------------------------------------------
(* Inputs *)

Tweet(text, media) == [kind |-> "tweet", text |-> text, media |-> media]
Malformed == [kind |-> "malformed", text |-> <<>>, media |-> <<>>]

Rule(pattern, ticker) == [pattern |-> pattern, ticker |-> ticker]

MainRules == << Rule(<<"d", "o", "g">>, "DOGE"), Rule(<<"o", "g">>, "BTC") >>

StreamPayloads ==
    { Tweet(<<"D", "o'", "g">>, <<"u">>),
      Tweet(<<"x">>, <<"u">>),
      Tweet(<<"x">>, <<>>),
      Malformed }

OcrAnswers ==
    { [kind |-> "ok", text |-> <<"l", "O", "G">>],
      [kind |-> "api_error", text |-> <<>>],
      [kind |-> "exception", text |-> <<>>] }

OrderSizes == {"max", "0.5", "1.1", "2.5"}
AskPrices == {1, 2}
AvailableAmounts == {0, 10, 100}
BorrowableAmounts == {0, 1, 100}
TickerAmounts == {0, 5}

BuyEnvs ==
    [fail : {"none", "get_ask_price", "get_available_asset",
             "get_max_borrowable", "buy"},
     ask : AskPrices, available : AvailableAmounts,
     borrowable : BorrowableAmounts, order : {"buy_order", None}]

SellEnvs ==
    [fail : {"none", "get_available_asset", "sell"},
     available_ticker : TickerAmounts, order : {"sell_order", None}]

Configs ==
    [TWITTER_API_KEY : {None, "key"},
     GOOGLE_APPLICATION_CREDENTIALS : {None, "cred"},
     ELON_CRYPTO_RULES : {MainRules},
     BRIDGE : {"USDT"},
     ELON_AUTO_BUY_DELAY_SECONDS : {1},
     ELON_AUTO_SELL_DELAY_SECONDS : {2},
     ELON_MARGIN_TYPE : {"cross"},
     ELON_ORDER_SIZE_MAX : OrderSizes,
     ELON_TWEET_TEXT : {NoPayload} \cup StreamPayloads]

----------------------------------------------------------------------------
(* State after construction *)

NoOutcome == [status |-> "none", ticker |-> None, error |-> None]
NoTradeOutcome == [status |-> "none", is_none |-> FALSE, buy |-> None,
                   sell |-> None, error |-> None]
NoArgs == [coin |-> None, ticker |-> None]

InitWith(config) ==
    /\ self = ElonBotInit(config)
    /\ pc = "hct_entry"
    /\ resets = 0
    /\ connects = 0
    /\ backoffs = 0
    /\ lines = 0
    /\ status = 0
    /\ processed = 0
    /\ last = NoRun
    /\ hct = NoOutcome
    /\ targs = NoArgs
    /\ calls = <<>>
    /\ buy_result = None
    /\ tret = NoTradeOutcome
    /\ cancelled = FALSE

Init == \E config \in Configs : InitWith(config)

----------------------------------------------------------------------------
(* has_crypto_tweet *)

\* has_crypto_tweet treating every call as a live one.
dry_run_call_never(s) == FALSE

\* if self.process_tweet_text is not None
dry_run_call(s) == s.process_tweet_text.kind # "none"

HctReturn(ticker) ==
    /\ hct' = [status |-> "returned", ticker |-> ticker, error |-> None]
    /\ pc' = "hct_returned"

HctRaise(error) ==
    /\ hct' = [status |-> "raised", ticker |-> None, error |-> error]
    /\ pc' = "hct_raised"

TradeUnchanged == UNCHANGED <<targs, calls, buy_result, tret, cancelled>>

\* Without an API key __init__ set no field: reading
\* self.process_tweet_text raises AttributeError.
HasCryptoTweetNoKey ==
    /\ pc = "hct_entry"
    /\ ~self.initialized
    /\ HctRaise("AttributeError")
    /\ UNCHANGED <<self, resets, connects, backoffs, lines, status,
                   processed, last>>
    /\ TradeUnchanged

\* if self.process_tweet_text is not None:
\*     return self.tweet_has_crypto(self.process_tweet_text, current_coin)
HasCryptoTweetDryRun ==
    /\ pc = "hct_entry"
    /\ self.initialized
    /\ dry_run_call(self)
    /\ \E ocr \in OcrAnswers :
         LET r == tweet_has_crypto(self, self.process_tweet_text, ocr)
         IN  /\ last' = r
             /\ processed' = processed + 1
             /\ IF r.raised THEN HctRaise("Exception") ELSE HctReturn(r.ticker)
    /\ UNCHANGED <<self, resets, connects, backoffs, lines, status>>
    /\ TradeUnchanged

\* reset_twitter_subscription_rules(self.user), outside the try: an error
\* of the reset leaves has_crypto_tweet.
HasCryptoTweetReset ==
    /\ pc = "hct_entry"
    /\ self.initialized
    /\ ~dry_run_call(self)
    /\ resets' = resets + 1
    /\ \E ok \in BOOLEAN :
         IF ok THEN pc' = "connecting" /\ hct' = hct
         ELSE HctRaise("Exception")
    /\ UNCHANGED <<self, connects, backoffs, lines, status, processed, last>>
    /\ TradeUnchanged

\* The connection attempt with the rule reset moved inside the loop.
connect_resetting ==
    /\ pc = "connecting"
    /\ connects < MaxConnects
    /\ connects' = connects + 1
    /\ resets' = resets + 1
    /\ lines' = 0
    /\ \E answer \in {0, 200, 503} :
         /\ status' = answer
         /\ pc' = CASE answer = 0 -> "except"
                    [] answer = 200 -> "streaming"
                    [] OTHER -> "sleep60"
    /\ UNCHANGED <<self, backoffs, processed, last, hct>>
    /\ TradeUnchanged

\* response = requests.get(..., stream=True, timeout=timeout)
\* if response.status_code != 200: ... time.sleep(60)
Connect ==
    /\ pc = "connecting"
    /\ connects < MaxConnects
    /\ connects' = connects + 1
    /\ lines' = 0
    /\ \E answer \in {0, 200, 503} :
         /\ status' = answer
         /\ pc' = CASE answer = 0 -> "except"
                    [] answer = 200 -> "streaming"
                    [] OTHER -> "sleep60"
    /\ UNCHANGED <<self, resets, backoffs, processed, last, hct>>
    /\ TradeUnchanged

\* time.sleep(60) of the non-200 branch elapses; control falls through to
\* the loop over response.iter_lines().
Sleep60 ==
    /\ pc = "sleep60"
    /\ backoffs' = backoffs + 1
    /\ pc' = "streaming"
    /\ UNCHANGED <<self, resets, connects, lines, status, processed, last, hct>>
    /\ TradeUnchanged

\* The loop going on after a match.
after_line_continue(ticker) == "continue"

\* if ticker is not None: return ticker / continue
after_line(ticker) == IF ticker # None THEN "return" ELSE "continue"

\* One step of: for response_line in response.iter_lines(): ...
\* followed by return None when the body ends.
IterLines ==
    /\ pc = "streaming"
    /\ \/ \* the body ends: return None
          /\ HctReturn(None)
          /\ UNCHANGED <<lines, processed, last>>
       \/ \* the read raises (connection error, timeout)
          /\ lines < MaxLines
          /\ pc' = "except"
          /\ UNCHANGED <<lines, processed, last, hct>>
       \/ \* an empty keep-alive line
          /\ lines < MaxLines
          /\ lines' = lines + 1
          /\ UNCHANGED <<pc, processed, last, hct>>
       \/ \* a non-empty line
          /\ lines < MaxLines
          /\ \E response_line \in StreamPayloads, ocr \in OcrAnswers :
               LET r == tweet_has_crypto(self, response_line, ocr)
               IN  /\ last' = r
                   /\ processed' = processed + 1
                   /\ lines' = lines + 1
                   /\ IF r.raised THEN pc' = "except" /\ hct' = hct
                      ELSE IF after_line(r.ticker) = "return"
                           THEN HctReturn(r.ticker)
                           ELSE pc' = pc /\ hct' = hct
    /\ UNCHANGED <<self, resets, connects, backoffs, status>>
    /\ TradeUnchanged

\* The except clause of the try inside while True: log, wait, go round the
\* loop again.
ExceptHandler ==
    /\ pc = "except"
    /\ backoffs' = backoffs + 1
    /\ pc' = "connecting"
    /\ UNCHANGED <<self, resets, connects, lines, status, processed, last, hct>>
    /\ TradeUnchanged

----------------------------------------------------------------------------
(* The caller and trade *)

StreamUnchanged ==
    UNCHANGED <<self, resets, connects, backoffs, lines, status, processed,
                last, hct, cancelled>>

\* The caller of the watcher: on a ticker returned by has_crypto_tweet it
\* runs one trade cycle funded from the bridge; a dry run does not trade.
CallTrade ==
    /\ pc = "hct_returned"
    /\ hct.ticker # None
    /\ ~self.dry_run
    /\ targs' = [coin |-> self.bridge, ticker |-> hct.ticker]
    /\ pc' = "trade_buy_delay"
    /\ UNCHANGED <<calls, buy_result, tret>>
    /\ StreamUnchanged

\* trade handing control back to the stream loop when it returns.
trade_return_resumes(is_none, b, s) ==
    /\ tret' = [status |-> "returned", is_none |-> is_none, buy |-> b,
                sell |-> s, error |-> None]
    /\ pc' = "streaming"

TradeReturn(is_none, b, s) ==
    /\ tret' = [status |-> "returned", is_none |-> is_none, buy |-> b,
                sell |-> s, error |-> None]
    /\ pc' = "trade_returned"

TradeRaise(error) ==
    /\ tret' = [status |-> "raised", is_none |-> FALSE, buy |-> None,
                sell |-> None, error |-> error]
    /\ pc' = "trade_raised"

\* The wait clearing the configured delay once it has elapsed.
trade_buy_delay_consuming ==
    /\ pc = "trade_buy_delay"
    /\ calls' = Append(calls, Call("trade", "sleep", <<self.auto_buy_delay, 1>>, None, None, -1))
    /\ pc' = "trade_buy"
    /\ self' = [self EXCEPT !.auto_buy_delay = 0]
    /\ UNCHANGED <<targs, buy_result, tret>>
    /\ UNCHANGED <<resets, connects, backoffs, lines, status, processed,
                   last, hct, cancelled>>

\* time.sleep(self.auto_buy_delay)
TradeBuyDelay ==
    /\ pc = "trade_buy_delay"
    /\ calls' = Append(calls, Call("trade", "sleep", <<self.auto_buy_delay, 1>>, None, None, -1))
    /\ pc' = "trade_buy"
    /\ UNCHANGED <<targs, buy_result, tret>>
    /\ StreamUnchanged

\* trade going on to the sell leg whatever buy returned.
trade_buy_failed_ignored(result) == FALSE

\* if buy_result is None: return None
trade_buy_failed(result) == result = None

\* buy_result = self.buy(ticker, coin): the arguments are passed in this
\* order to buy(self, coin, ticker).
TradeBuy ==
    /\ pc = "trade_buy"
    /\ \E env \in BuyEnvs :
         LET r == buy(self, targs.ticker, targs.coin, env)
         IN  /\ calls' = calls \o r.calls
             /\ IF r.raised
                THEN TradeRaise(r.error) /\ buy_result' = buy_result
                ELSE /\ buy_result' = r.value
                     /\ IF trade_buy_failed(r.value)
                        THEN TradeReturn(TRUE, None, None)
                        ELSE pc' = "trade_sell_delay" /\ tret' = tret
    /\ UNCHANGED targs
    /\ StreamUnchanged

\* time.sleep(self.auto_sell_delay)
TradeSellDelay ==
    /\ pc = "trade_sell_delay"
    /\ calls' = Append(calls, Call("trade", "sleep", <<self.auto_sell_delay, 1>>, None, None, -1))
    /\ pc' = "trade_sell"
    /\ UNCHANGED <<targs, buy_result, tret>>
    /\ StreamUnchanged

\* sell_result = self.sell(ticker); return buy_result, sell_result
TradeSell ==
    /\ pc = "trade_sell"
    /\ \E env \in SellEnvs :
         LET r == sell(self, targs.ticker, env)
         IN  /\ calls' = calls \o r.calls
             /\ IF r.raised
                THEN TradeRaise(r.error)
                ELSE TradeReturn(FALSE, buy_result, r.value)
    /\ UNCHANGED <<targs, buy_result>>
    /\ StreamUnchanged

----------------------------------------------------------------------------
(* Shutdown signal: KeyboardInterrupt raised in the blocked call *)

\* trade catching the interrupt and going on after the wait.
interrupt_in_trade_swallowed == "swallow"

\* trade has no try around time.sleep: the interrupt leaves trade.
interrupt_in_trade == "propagate"

\* The signal arrives while trade is in time.sleep(self.auto_buy_delay) or
\* time.sleep(self.auto_sell_delay).
CancelTrade ==
    /\ pc \in {"trade_buy_delay", "trade_sell_delay"}
    /\ ~cancelled
    /\ cancelled' = TRUE
    /\ IF interrupt_in_trade = "propagate"
       THEN TradeRaise("KeyboardInterrupt")
       ELSE /\ pc' = (IF pc = "trade_buy_delay" THEN "trade_buy" ELSE "trade_sell")
            /\ tret' = tret
    /\ UNCHANGED <<targs, calls, buy_result>>
    /\ UNCHANGED <<self, resets, connects, backoffs, lines, status, processed,
                   last, hct>>

\* The signal arrives while has_crypto_tweet is blocked reading the stream
\* or waiting in a backoff: the except clause lets it pass.
CancelStream ==
    /\ pc \in {"streaming", "sleep60", "except"}
    /\ ~cancelled
    /\ cancelled' = TRUE
    /\ HctRaise("KeyboardInterrupt")
    /\ UNCHANGED <<targs, calls, buy_result, tret>>
    /\ UNCHANGED <<self, resets, connects, backoffs, lines, status, processed,
                   last>>

----------------------------------------------------------------------------

Next ==
    \/ HasCryptoTweetNoKey
    \/ HasCryptoTweetDryRun
    \/ HasCryptoTweetReset
    \/ Connect
    \/ Sleep60
    \/ IterLines
    \/ ExceptHandler
    \/ CallTrade
    \/ TradeBuyDelay
    \/ TradeBuy
    \/ TradeSellDelay
    \/ TradeSell
    \/ CancelTrade
    \/ CancelStream

Spec == Init /\ [][Next]_vars

----------------------------------------------------------------------------
(* The matcher on its own: every rule set and every text up to MaxTextLen *)

Alphabet == {"d", "O", "o'", "g", "sz"}

Texts == UNION { [1..n -> Alphabet] : n \in 0..MaxTextLen }

RuleSets ==
    { <<>>,
      MainRules,
      << Rule(<<"o", "g">>, "BTC"), Rule(<<"d", "o", "g">>, "DOGE") >>,
      << Rule(<<"D", ".">>, "ETH"), Rule(<<"S", "s">>, "BTC"),
         Rule(<<"g">>, "DOGE") >>,
      << Rule(<<"o'">>, "XRP"), Rule(<<"g", " ">>, "BTC"),
         Rule(<<>>, "ALL") >> }

InitMatch ==
    \E rules \in RuleSets, t \in Texts, cred \in {None, "cred"},
       media \in {<<>>, <<"">>, <<"", "u">>, <<"u">>} :
        InitWith([TWITTER_API_KEY |-> "key",
                  GOOGLE_APPLICATION_CREDENTIALS |-> cred,
                  ELON_CRYPTO_RULES |-> rules,
                  BRIDGE |-> "USDT",
                  ELON_AUTO_BUY_DELAY_SECONDS |-> 1,
                  ELON_AUTO_SELL_DELAY_SECONDS |-> 2,
                  ELON_MARGIN_TYPE |-> "cross",
                  ELON_ORDER_SIZE_MAX |-> "max",
                  ELON_TWEET_TEXT |-> Tweet(t, media)])

NextMatch == HasCryptoTweetDryRun

SpecMatch == InitMatch /\ [][NextMatch]_vars

----------------------------------------------------------------------------
(* Properties *)

Terminated == hct.status = "returned" /\ hct.ticker # None

\* C1: single-shot termination.  A line read from the stream whose pipeline
\* run yields a ticker makes has_crypto_tweet return that ticker in the same
\* step; once it has returned a ticker, no event is processed, no line is
\* read, no connection is opened and its outcome never changes.
C1_SingleShot ==
    [][ /\ (/\ pc = "streaming"
            /\ processed' = processed + 1
            /\ ~last'.raised
            /\ last'.ticker # None)
           => (/\ pc' = "hct_returned"
               /\ hct' = [status |-> "returned", ticker |-> last'.ticker,
                          error |-> None])
        /\ Terminated
           => (/\ hct' = hct
               /\ UNCHANGED <<resets, connects, backoffs, lines, processed, last>>)
      ]_vars

C1_Witness ==
    /\ Terminated
    /\ connects = 2
    /\ hct.ticker = "BTC"
    /\ pc = "trade_returned"

SellSideCalls == { i \in 1..Len(calls) : calls[i].by = "sell" }
OrderCalls == { i \in 1..Len(calls) : calls[i].op \in {"buy", "sell"} }

\* C2: a sell-side call (balance query or sell order) is made only after the
\* buy order call of the same cycle, with a non-null buy result; a buy leg
\* that returns None ends the cycle with None, and one that raises ends it
\* with the error raised to the caller.
C2_SellOnlyAfterBuy ==
    /\ [](\A i \in SellSideCalls :
            /\ buy_result # None
            /\ \E j \in 1..(i - 1) : calls[j].by = "buy" /\ calls[j].op = "buy")
    /\ [][pc = "trade_buy" /\ pc' # "trade_sell_delay"
            => \/ tret'.status = "raised" /\ tret'.error # None
               \/ tret'.status = "returned" /\ tret'.is_none /\ buy_result' = None
         ]_vars
    /\ []((tret.status # "none" /\ buy_result = None) => SellSideCalls = {})

C2_Witness ==
    /\ pc = "trade_returned"
    /\ tret.is_none
    /\ calls[Len(calls)].op = "buy"
    /\ SellSideCalls = {}

ZeroBalanceRead ==
    \E i \in 1..Len(calls) :
        /\ calls[i].by = "buy"
        /\ calls[i].op = "get_available_asset"
        /\ calls[i].ret = 0

C4_SizeErrorIffExceeds ==
    \A i, j \in 1..Len(calls) :
        (/\ self.order_size # "max"
         /\ calls[i].by = "buy" /\ calls[i].op = "get_available_asset"
         /\ calls[i].ret > 0
         /\ calls[j].by = "buy" /\ calls[j].op = "get_max_borrowable"
         /\ calls[j].ret >= 0)
        => /\ (tret.error = "ValueError")
                <=> order_size_exceeds_exact(self.order_size,
                                             calls[i].ret, calls[j].ret)
           /\ tret.error = "ValueError" => OrderCalls = {}

\* C5 (as claimed): when the buy leg returned an order and the sell leg
\* raises, the outcome of trade still carries the buy order.
C5_BuyReportedOnSellError ==
    (/\ pc = "trade_raised"
     /\ buy_result # None
     /\ SellSideCalls # {})
        => tret.buy = buy_result

Ops == [i \in 1..Len(calls) |-> calls[i].op]

\* C6 (as claimed): a cycle without errors whose orders are both accepted
\* is exactly: wait buy_delay, price and balance queries, buy the ticker
\* funded from the bridge, wait sell_delay, query the ticker quantity, sell
\* it back to the bridge; the result holds both orders.
C6_HappyPath ==
    (/\ pc = "trade_returned"
     /\ ~tret.is_none
     /\ tret.sell # None)
        => /\ Ops = <<"sleep", "get_ask_price", "get_available_asset",
                      "get_max_borrowable", "buy", "sleep",
                      "get_available_asset", "sell">>
           /\ calls[1].qty = <<self.auto_buy_delay, 1>>
           /\ calls[5].a = targs.ticker /\ calls[5].b = self.bridge
           /\ calls[6].qty = <<self.auto_sell_delay, 1>>
           /\ calls[8].a = targs.ticker /\ calls[8].b = self.bridge
           /\ calls[8].qty = <<calls[7].ret, 1>>
           /\ tret.buy # None

Folded(t) == LET u == unidecode(t) IN [i \in 1..Len(u) |-> Lower(u[i])]

PatternFound(pattern, ft) ==
    \E i \in 1..(Len(ft) + 1) :
        /\ i + Len(pattern) - 1 <= Len(ft)
        /\ \A j \in 1..Len(pattern) :
              pattern[j] = "." \/ Lower(pattern[j]) = ft[i + j - 1]

MatchingRules ==
    { i \in 1..Len(self.crypto_rules) :
        PatternFound(self.crypto_rules[i].pattern, Folded(last.full_text)) }

\* C8: first match wins.  The ticker a pipeline run returns is that of the
\* first rule, in declared order, whose pattern is found in the folded
\* combined text, and it is None exactly when no rule matches.
C8_FirstMatchWins ==
    (last.ran /\ ~last.raised)
        => /\ (last.ticker = None) <=> (MatchingRules = {})
           /\ \A i \in MatchingRules :
                 (\A j \in MatchingRules : i <= j)
                     => last.ticker = self.crypto_rules[i].ticker

C8_Witness ==
    /\ last.ran /\ ~last.raised
    /\ Cardinality(MatchingRules) >= 2
    /\ \E i \in MatchingRules :
          self.crypto_rules[i].ticker # last.ticker
    /\ unidecode(last.full_text) # last.full_text

OcrFailed ==
    /\ last.ran
    /\ last.ocr_called
    /\ \/ last.image_url = ""
       \/ last.ocr_kind \in {"api_error", "exception"}

C10_NonOkRecovers ==
    (status # 0 /\ status # 200)
        => /\ pc \in {"sleep60", "connecting"}
           /\ hct.status = "none"

LiveRun == self.initialized /\ self.process_tweet_text.kind = "none"

\* C11 (as claimed): a line of the stream body that cannot be decoded is
\* skipped: the consumer stays on the same connection, reading its next
\* lines, and has_crypto_tweet neither returns nor raises.
C11_MalformedSkipped ==
    [][ (/\ pc = "streaming"
         /\ processed' = processed + 1
         /\ last'.raised)
           => (/\ pc' = "streaming"
               /\ connects' = connects
               /\ hct' = hct)
      ]_vars

\* C12 (as claimed): in a live run has_crypto_tweet returns only on a
\* match: it never returns None because the body of a stream ended.
C12_ReturnsOnlyOnMatch ==
    (LiveRun /\ hct.status = "returned") => hct.ticker # None

TradePcs == {"trade_buy_delay", "trade_buy", "trade_sell_delay", "trade_sell",
             "trade_returned", "trade_raised"}

CycleStarted == targs # NoArgs

CycleStarts ==
    { i \in 1..Len(calls) : calls[i].by = "buy" /\ calls[i].op = "get_ask_price" }

\* C13: at most one trade cycle.  A cycle runs only once has_crypto_tweet
\* has returned a ticker, for that ticker; from then on the thread is in
\* trade or past it, no event is processed, no line read, no connection
\* opened, the match stands, and the buy leg is entered at most once.
C13_OneCycle ==
    /\ [](CycleStarted
            => /\ Terminated
               /\ targs.ticker = hct.ticker
               /\ pc \in TradePcs
               /\ Cardinality(CycleStarts) <= 1)
    /\ [](calls # <<>> => CycleStarted)
    /\ [][CycleStarted
            => UNCHANGED <<targs, hct, processed, connects, lines, last>>]_vars

C13_Witness ==
    /\ pc = "trade_sell"
    /\ Terminated
    /\ connects = 2
    /\ Cardinality(CycleStarts) = 1

\* C14 (as claimed): without a stream API key the construction returns
\* without the startup delay, and using the watcher afterwards raises
\* nothing, resets no rule, opens no connection and makes no exchange call.
C14_InertWithoutKey ==
    ~self.initialized
        => /\ self.slept = 0
           /\ hct.status # "raised"
           /\ resets = 0
           /\ connects = 0
           /\ calls = <<>>

\* C15: cancellation.  A shutdown signal delivered during a stream read, a
\* backoff wait, the buy-delay wait or the sell-delay wait ends the session
\* in that step, without a call; afterwards the thread takes no step, so
\* no buy or sell order follows.
C15_CancelAborts ==
    /\ [](cancelled => pc \in {"hct_raised", "trade_raised"})
    /\ [][(~cancelled /\ cancelled')
            => /\ pc \in {"streaming", "sleep60", "except",
                          "trade_buy_delay", "trade_sell_delay"}
               /\ calls' = calls]_vars
    /\ [][cancelled => (calls' = calls /\ pc' = pc)]_vars

C15_Witness ==
    /\ cancelled
    /\ pc = "trade_raised"
    /\ Len(calls) = 5
    /\ calls[5].op = "buy"
    /\ buy_result # None

NonOk == status # 0 /\ status # 200

\* C16 (as claimed): while the current response is a non-200 one, no line
\* of its body is read, no line is passed to the pipeline and no ticker is
\* returned.
C16_NoReadFromNonOk ==
    [][NonOk
         => /\ processed' = processed
            /\ status' = status => lines' = lines
            /\ hct'.ticker = None
      ]_vars

\* C17: in a live run the filter rules are reset before the first
\* connection attempt and exactly once: every state past the entry of
\* has_crypto_tweet, whatever the number of connections, has seen one reset.
C17_ResetOnce ==
    LiveRun
        => /\ resets <= 1
           /\ connects >= 1 => resets = 1
           /\ pc # "hct_entry" => resets = 1

C17_Witness ==
    /\ LiveRun
    /\ connects = 2
    /\ backoffs >= 1
    /\ pc = "streaming"
    /\ resets = 1

BuyOrderCalls ==
    { i \in 1..Len(calls) : calls[i].by = "buy" /\ calls[i].op = "buy" }
SellOrderCalls ==
    { i \in 1..Len(calls) : calls[i].by = "sell" /\ calls[i].op = "sell" }

ConfigOf ==
    <<self.crypto_rules, self.bridge, self.order_size, self.margin_type,
      self.auto_buy_delay, self.auto_sell_delay, self.use_image_signal,
      self.process_tweet_text>>

\* C19: the configuration is read-only after construction: no step of
\* has_crypto_tweet, tweet_has_crypto, buy, sell or trade, whether it
\* succeeds or raises, changes the rule set, the bridge, the order size, the
\* margin type, a delay, the image-signal flag or the dry-run payload.
C19_ConfigReadOnly == [][ConfigOf' = ConfigOf]_vars

C19_Witness ==
    /\ pc = "trade_raised"
    /\ tret.error = "ValueError"
    /\ self.order_size = "2.5"
    /\ self.use_image_signal
    /\ processed = 2

\* C20: no trigger without a match.  A ticker returned by has_crypto_tweet
\* is the ticker of a configured rule whose pattern is found in the folded
\* combined text of the last event processed, the text of a stream payload
\* or of the dry-run payload; a step of the stream loop that runs no
\* pipeline (an empty line, the end of the body, a read error) returns no
\* ticker.
C20_NoTriggerWithoutMatch ==
    /\ [](Terminated
            => /\ processed >= 1
               /\ last.ran /\ ~last.raised
               /\ \E p \in StreamPayloads \cup {self.process_tweet_text} :
                     p.kind = "tweet" /\ p.text = last.tweet_text
               /\ \E i \in 1..Len(self.crypto_rules) :
                     /\ self.crypto_rules[i].ticker = hct.ticker
                     /\ PatternFound(self.crypto_rules[i].pattern,
                                     Folded(last.full_text)))
    /\ [][(pc = "streaming" /\ processed' = processed)
            => hct'.ticker = None]_vars

C20_Witness ==
    /\ Terminated
    /\ LiveRun
    /\ hct.ticker = "BTC"
    /\ lines = 2
    /\ processed = 1

====
